---- MODULE Spec2Model ----
(***************************************************************************)
(* Sharded bucket traversal of kptdobe/da-magic.                           *)
(*                                                                         *)
(*   traverse/sharding.js   generateShardPrefixes, keyBelongsToShard,      *)
(*                          filterObjectsByShard, getShardStats            *)
(*   traverse/s3-utils.js   listShardObjects, processShards                *)
(*                                                                         *)
(* A character is a one-character string, a key or a prefix is a sequence  *)
(* of characters.  The specifications of the module share its variables:   *)
(*   SpecShard  applies the planner, the membership test and the filter    *)
(*              to inputs drawn from bounded sets (full 65-char alphabet); *)
(*   Spec       is one processShards run against a storage whose key set   *)
(*              is fixed, with the shard workers interleaving at their     *)
(*              awaits; SpecFair adds weak fairness, SpecTimed the clock,  *)
(*              SpecInvalid the shard counts outside 1..256;               *)
(*   SpecFinder is the sharded gzip finder around processShards;           *)
(*   SpecLegacy is the hex sharding of the legacy traverse.js;             *)
(*   SpecRecursive is the recursive folder finder (find-gzip-files.js);    *)
(*   SpecCsv    is the CSV exporter (traverse.js).                         *)
(***************************************************************************)
EXTENDS Integers, Sequences, FiniteSets, TLC

VARIABLES
    call,       \* SpecShard: the inputs of the pure functions
    ret,        \* SpecShard: their results
    main,       \* processShards: "idle", "running", "resolved"
    opts,       \* processShards: the options object (which callbacks are supplied)
    storage,    \* the set of keys in the bucket
    shards,     \* const shards = generateShardPrefixes(prefix, shardCount)
    stats,      \* const stats = { totalObjects, processedObjects, ... }
    worker,     \* per shard: position and locals of processShard / listShardObjects
    obs,        \* per shard: what storage and the callbacks have seen
    now,        \* Date.now(), in ticks of TickMs milliseconds
    out,        \* the CSV stream of the script around the traversal
    detailedStats,  \* the finder scripts' own counters
    folders     \* recursive finder: the processFolder calls, by folder prefix

vars == <<call, ret, main, opts, storage, shards, stats, worker, obs, now,
          out, detailedStats, folders>>

\* the state of the scripts, untouched by processShards itself
scriptVars == <<out, detailedStats, folders>>

\* let outputStream = null
noStream == [open |-> FALSE, header |-> FALSE, rows |-> <<>>, ended |-> FALSE, late |-> 0]

noDetailedStats == [totalFiles |-> 0, gzipFiles |-> 0, nonGzipFiles |-> 0, errors |-> 0]

NoScript ==
    /\ out = noStream
    /\ detailedStats = noDetailedStats
    /\ folders = <<>>

(***************************************************************************)
(* Bounds                                                                  *)
(***************************************************************************)
MaxRest == 2        \* SpecShard: longest key suffix after the base prefix
MaxBatch == 2       \* SpecShard: longest batch handed to the filter
NLower == 1         \* Spec: how many lowercase letters get a worker
NSpecial == 1       \* Spec: how many of '_', '-', '.' get a worker
MaxStored == 3      \* Spec: most keys in the bucket
PageMax == 2        \* Spec: most entries storage puts in one page
MaxTicks == 4       \* SpecTimed: how often the clock advances during a run
TickMs == 10000     \* SpecTimed: milliseconds the clock advances at once
MaxTimedStored == 2 \* SpecTimed, SpecFair, SpecInvalid: most keys in the bucket
MaxTreeStored == 4  \* SpecRecursive: most keys in the bucket
MaxKeys == 2        \* SpecRecursive: entries in a full listing page (1000, scaled)
BatchSize == 2      \* SpecRecursive: HeadObject calls sent at once (25, scaled)
MaxConcurrentSubfolders == 2  \* SpecRecursive: subfolders at once (10, scaled)

(***************************************************************************)
(* Sequences                                                               *)
(***************************************************************************)
Range(s) == {s[i] : i \in 1..Len(s)}

includes(s, x) == \E i \in 1..Len(s) : s[i] = x

startsWith(s, p) == Len(s) >= Len(p) /\ SubSeq(s, 1, Len(p)) = p

substring(s, n) == SubSeq(s, n + 1, Len(s))

(***************************************************************************)
(* sharding.js                                                             *)
(***************************************************************************)
digits == <<"0", "1", "2", "3", "4", "5", "6", "7", "8", "9">>

lowercase ==
    <<"a", "b", "c", "d", "e", "f", "g", "h", "i", "j", "k", "l", "m",
      "n", "o", "p", "q", "r", "s", "t", "u", "v", "w", "x", "y", "z">>

uppercase ==
    <<"A", "B", "C", "D", "E", "F", "G", "H", "I", "J", "K", "L", "M",
      "N", "O", "P", "Q", "R", "S", "T", "U", "V", "W", "X", "Y", "Z">>

specialChars == <<"_", "-", ".">>

\* variant: the lowercase letters come before the uppercase letters
allChars_lowerFirst == digits \o lowercase \o uppercase \o specialChars

allChars == digits \o uppercase \o lowercase \o specialChars

\* charRange: null is the empty sequence (the code never builds an empty array)
null == <<>>

\* variant: a letter's shard takes the letter in either case
explicitShards_eitherCase(chars, basePrefix) ==
    [i \in 1..Len(chars) |->
        [prefix |-> Append(basePrefix, chars[i]),
         type |-> "explicit",
         charRange |->
            <<chars[i]>> \o
            (IF \E j \in 1..26 : lowercase[j] = chars[i]
             THEN <<uppercase[CHOOSE j \in 1..26 : lowercase[j] = chars[i]]>>
             ELSE IF \E j \in 1..26 : uppercase[j] = chars[i]
             THEN <<lowercase[CHOOSE j \in 1..26 : uppercase[j] = chars[i]]>>
             ELSE <<>>)]]

explicitShards(chars, basePrefix) ==
    [i \in 1..Len(chars) |->
        [prefix |-> Append(basePrefix, chars[i]),
         type |-> "explicit",
         charRange |-> <<chars[i]>>]]

\* variant: the single shard of count 1 is a catch-all
generateShardsOver_catchAllOne(chars, basePrefix, count) ==
    IF count = 1
    THEN <<[prefix |-> basePrefix, type |-> "catch-all", charRange |-> null]>>
    ELSE <<[prefix |-> basePrefix, type |-> "catch-all", charRange |-> null]>>
         \o explicitShards(chars, basePrefix)

\* the body of generateShardPrefixes, over the string of characters to shard on
generateShardsOver(chars, basePrefix, count) ==
    IF count = 1
    THEN <<[prefix |-> basePrefix, type |-> "all", charRange |-> null]>>
    ELSE <<[prefix |-> basePrefix, type |-> "catch-all", charRange |-> null]>>
         \o explicitShards(chars, basePrefix)

generateShardPrefixes(basePrefix, count) ==
    generateShardsOver(allChars, basePrefix, count)

\* the ranges 0-9a-zA-Z of a character class
class09azAZ ==
    {"0", "1", "2", "3", "4", "5", "6", "7", "8", "9"}
    \cup {"a", "b", "c", "d", "e", "f", "g", "h", "i", "j", "k", "l", "m",
          "n", "o", "p", "q", "r", "s", "t", "u", "v", "w", "x", "y", "z"}
    \cup {"A", "B", "C", "D", "E", "F", "G", "H", "I", "J", "K", "L", "M",
          "N", "O", "P", "Q", "R", "S", "T", "U", "V", "W", "X", "Y", "Z"}

\* variant: the class without '_', '.', '-'
explicitCharPattern_alnumOnly == class09azAZ

\* /[0-9a-zA-Z_.-]/ of keyBelongsToShard
explicitCharPattern == class09azAZ \cup {"_", ".", "-"}

\* variant: the class without '_', '.', '-'
explicitStartPattern_alnumOnly == class09azAZ

\* /^[0-9a-zA-Z_.-]/ of filterObjectsByShard
explicitStartPattern == class09azAZ \cup {"_", ".", "-"}

\* variant: a character shard takes only the keys directly under the base
\* prefix, the catch-all the keys in folders
keyBelongsToShard_byDepth(key, shard, basePrefix) ==
    IF ~startsWith(key, basePrefix) THEN FALSE
    ELSE LET keyAfterPrefix == substring(key, Len(basePrefix)) IN
         IF keyAfterPrefix = <<>>
         THEN shard.type = "catch-all" \/ shard.type = "all"
         ELSE LET firstChar == keyAfterPrefix[1] IN
              IF shard.type = "all" THEN TRUE
              ELSE IF shard.type = "explicit" \/ shard.type = "alphanum"
              THEN /\ ~includes(keyAfterPrefix, "/")
                   /\ IF shard.charRange # null
                      THEN includes(shard.charRange, firstChar)
                      ELSE startsWith(key, shard.prefix)
              ELSE IF shard.type = "catch-all"
              THEN firstChar \notin explicitCharPattern \/ includes(keyAfterPrefix, "/")
              ELSE FALSE

keyBelongsToShard(key, shard, basePrefix) ==
    IF ~startsWith(key, basePrefix) THEN FALSE
    ELSE LET keyAfterPrefix == substring(key, Len(basePrefix)) IN
         IF keyAfterPrefix = <<>>
         THEN shard.type = "catch-all" \/ shard.type = "all"
         ELSE LET firstChar == keyAfterPrefix[1] IN
              IF shard.type = "all" THEN TRUE
              ELSE IF shard.type = "explicit" \/ shard.type = "alphanum"
              THEN IF shard.charRange # null
                   THEN includes(shard.charRange, firstChar)
                   ELSE startsWith(key, shard.prefix)
              ELSE IF shard.type = "catch-all"
              THEN firstChar \notin explicitCharPattern
              ELSE FALSE

\* variant: the key equal to the base prefix is dropped as well
keepInCatchAll_dropEmpty(key, basePrefix) ==
    LET keyAfterPrefix == substring(key, Len(basePrefix)) IN
    IF keyAfterPrefix = <<>> THEN FALSE
    ELSE keyAfterPrefix[1] \notin explicitStartPattern

keepInCatchAll(key, basePrefix) ==
    LET keyAfterPrefix == substring(key, Len(basePrefix)) IN
    IF keyAfterPrefix = <<>> THEN TRUE
    ELSE keyAfterPrefix[1] \notin explicitStartPattern

\* variant: the catch-all also drops the first object it would keep
filterObjectsByShard_dropFirst(objects, shard, basePrefix) ==
    IF Len(objects) = 0 THEN <<>>
    ELSE IF shard.type = "catch-all"
    THEN LET kept == SelectSeq(objects, LAMBDA k : keepInCatchAll(k, basePrefix))
         IN  IF kept = <<>> THEN kept ELSE Tail(kept)
    ELSE objects

\* objects are represented by their Key
filterObjectsByShard(objects, shard, basePrefix) ==
    IF Len(objects) = 0 THEN <<>>
    ELSE IF shard.type = "catch-all"
    THEN SelectSeq(objects, LAMBDA k : keepInCatchAll(k, basePrefix))
    ELSE objects

countType(shs, types) == Cardinality({i \in 1..Len(shs) : shs[i].type \in types})

getShardStats(shs) ==
    [total |-> Len(shs),
     catchAll |-> countType(shs, {"catch-all"}),
     alphanum |-> countType(shs, {"alphanum", "explicit"}),
     explicit |-> countType(shs, {"alphanum", "explicit"}),
     all |-> countType(shs, {"all"})]

(***************************************************************************)
(* SpecShard: the planner, the membership test and the filter applied to   *)
(* bounded inputs                                                          *)
(***************************************************************************)
BasePrefixes == {<<>>, <<"d", "/">>, <<"a">>}

ShardCounts == {0, 1, 2, 10, 16, 32, 62, 63, 66}

\* characters no explicit shard is generated for
otherChars == <<"@", "#", "$", "%", "^", "&", "!", "/", " ", "~", "+", "=">>

FirstChars == Range(allChars) \cup Range(otherChars)

TailChars == {"/", "a"}

RECURSIVE Tails(_)
Tails(n) ==
    IF n = 0 THEN {<<>>}
    ELSE Tails(n - 1) \cup {Append(t, c) : t \in Tails(n - 1), c \in TailChars}

\* every suffix a key can have after the base prefix, up to MaxRest characters
Rests ==
    {<<>>} \cup {<<c>> \o t : c \in FirstChars, t \in Tails(MaxRest - 1)}

\* keys that do not start with a (non-empty) base prefix
ForeignKeys == {<<"e">>, <<"e", "/", "a">>}

KeysFor(bp) == {bp \o r : r \in Rests} \cup {k \in ForeignKeys : ~startsWith(k, bp)}

\* one first character of each class for the batches
BatchChars == {"0", "A", "a", "_", "-", ".", "@", "/"}

BatchKeysFor(bp) ==
    {bp} \cup {Append(bp, c) : c \in BatchChars}
    \cup {bp \o <<"a", "/", "b">>, bp \o <<".", "x">>}
    \cup {k \in ForeignKeys : ~startsWith(k, bp)}

RECURSIVE SeqsUpTo(_, _)
SeqsUpTo(S, n) ==
    IF n = 0 THEN {<<>>}
    ELSE SeqsUpTo(S, n - 1)
         \cup {Append(q, x) : q \in {r \in SeqsUpTo(S, n - 1) : Len(r) = n - 1}, x \in S}

NoCall == [op |-> "none", basePrefix |-> <<>>, count |-> 0, key |-> <<>>, objects |-> <<>>]

NoRet == [planned |-> FALSE, answered |-> FALSE, shards |-> <<>>,
          shardStats |-> getShardStats(<<>>), owners |-> {}, filtered |-> <<>>]

CallsOver(prefixes) ==
    UNION {
        {[op |-> "belongs", basePrefix |-> bp, count |-> n, key |-> k, objects |-> <<>>] :
            n \in ShardCounts, k \in KeysFor(bp)}
        \cup
        {[op |-> "filter", basePrefix |-> bp, count |-> n, key |-> <<>>, objects |-> o] :
            n \in ShardCounts,
            o \in SeqsUpTo(BatchKeysFor(bp), MaxBatch)}
        : bp \in prefixes}

NoRun ==
    /\ main = "idle"
    /\ opts = [prefix |-> <<>>, shardCount |-> 0, processObject |-> FALSE,
               onProgress |-> "none", onShardComplete |-> FALSE]
    /\ storage = {}
    /\ shards = <<>>
    /\ stats = [totalObjects |-> 0, processedObjects |-> 0, totalShards |-> 0,
                completedShards |-> 0, activeShards |-> 0,
                startTime |-> 0, lastUpdate |-> 0]
    /\ worker = <<>>
    /\ obs = <<>>
    /\ now = 0
    /\ NoScript

runVars == <<main, opts, storage, shards, stats, worker, obs, now, scriptVars>>

InitShard ==
    /\ call \in CallsOver(BasePrefixes)
    /\ ret = NoRet
    /\ NoRun

\* const shards = generateShardPrefixes(basePrefix, count); getShardStats(shards)
Plan ==
    /\ call.op # "none"
    /\ ~ret.planned
    /\ LET shs == generateShardPrefixes(call.basePrefix, call.count) IN
       ret' = [ret EXCEPT !.planned = TRUE, !.shards = shs,
                          !.shardStats = getShardStats(shs)]
    /\ UNCHANGED <<call, runVars>>

\* shards.filter(shard => keyBelongsToShard(key, shard, basePrefix))
Belongs ==
    /\ call.op = "belongs"
    /\ ret.planned /\ ~ret.answered
    /\ ret' = [ret EXCEPT !.answered = TRUE,
                 !.owners = {i \in 1..Len(ret.shards) :
                                keyBelongsToShard(call.key, ret.shards[i], call.basePrefix)}]
    /\ UNCHANGED <<call, runVars>>

\* filterObjectsByShard(objects, shard, basePrefix) for every generated shard
Filter ==
    /\ call.op = "filter"
    /\ ret.planned /\ ~ret.answered
    /\ ret' = [ret EXCEPT !.answered = TRUE,
                 !.filtered = [i \in 1..Len(ret.shards) |->
                                filterObjectsByShard(call.objects, ret.shards[i], call.basePrefix)]]
    /\ UNCHANGED <<call, runVars>>

NextShard == Plan \/ Belongs \/ Filter

SpecShard == InitShard /\ [][NextShard]_vars

(***************************************************************************)
(* Storage: ListObjectsV2 over a fixed key set                             *)
(***************************************************************************)
RunPrefix == <<"d", "/">>

\* the keys a bucket can hold, in the store's lexicographic order
KeyOrder ==
    <<  <<"d", "/">>,
        <<"d", "/", "@">>,
        <<"d", "/", "_">>,
        <<"d", "/", "a">>,
        <<"d", "/", "a", "b">>,
        <<"e">>  >>

Buckets == {S \in SUBSET Range(KeyOrder) : Cardinality(S) <= MaxStored}

\* every key of the bucket that starts with the literal prefix, in order
listing(keys, prefix) ==
    SelectSeq(KeyOrder, LAMBDA k : k \in keys /\ startsWith(k, prefix))

\* the page sizes storage may answer with when `left` entries remain
pageSizes(left) ==
    IF left = 0 THEN {0}
    ELSE 1..(IF left < PageMax THEN left ELSE PageMax)

\* response of ListObjectsV2(Prefix, ContinuationToken) with n entries;
\* a token is the number of entries already returned, 0 is no token
listResponse(keys, prefix, token, n) ==
    LET all == listing(keys, prefix) IN
    [Contents |-> SubSeq(all, token + 1, token + n),
     NextContinuationToken |-> IF token + n < Len(all) THEN token + n ELSE 0]

(***************************************************************************)
(* s3-utils.js: processShards, processShard, listShardObjects              *)
(*                                                                         *)
(* A frame f = [stats, w, o] is the shared stats object, one worker's       *)
(* locals and that worker's observations; each operator below is a piece   *)
(* of code that runs without awaiting storage or processObject.            *)
(***************************************************************************)
\* the characters the run shards on: the first NLower letters of `lowercase`
\* and the first NSpecial of `specialChars`; the bucket holds no key whose
\* first character after the prefix is another character of allChars
shardChars == SubSeq(lowercase, 1, NLower) \o SubSeq(specialChars, 1, NSpecial)

\* Date.now() - stats.lastUpdate > 10000
progressInterval == 10000

\* const stats = {...}, created at time t
statsAt(t) ==
    [totalObjects |-> 0, processedObjects |-> 0, totalShards |-> 0,
     completedShards |-> 0, activeShards |-> 0,
     startTime |-> t, lastUpdate |-> t]

newStats == statsAt(0)

newWorker ==
    [pc |-> "pending", continuationToken |-> 0, totalCount |-> 0,
     shardObjectCount |-> 0, objects |-> <<>>, i |-> 0, nextToken |-> 0]

newObs ==
    [requests |-> <<>>, pages |-> 0, batches |-> 0, delivered |-> <<>>,
     seen |-> <<>>, resolved |-> 0, events |-> <<>>,
     listInFlight |-> 0, procInFlight |-> 0,
     rejected |-> FALSE, progress |-> <<>>, tokens |-> <<>>]

\* s3Client.send(new ListObjectsV2Command({..., ContinuationToken}))
sendList(f, token) ==
    [f EXCEPT !.w.pc = "listing",
              !.w.continuationToken = token,
              !.o.requests = Append(@, token),
              !.o.listInFlight = @ + 1]

\* variant: a started shard is not counted in totalShards
startShard_uncounted(f) ==
    sendList([f EXCEPT !.stats.activeShards = @ + 1], 0)

\* processShard up to its first await
startShard(f) ==
    sendList([f EXCEPT !.stats.totalShards = @ + 1,
                       !.stats.activeShards = @ + 1], 0)

\* variant: only the shards that succeeded are reported
onShardComplete_successOnly(f, event) ==
    IF opts.onShardComplete /\ event.success
    THEN [f EXCEPT !.o.events = Append(@, event)]
    ELSE f

\* onShardComplete({shardId, shard, objectCount, duration, success, error})
onShardComplete(f, event) ==
    IF opts.onShardComplete
    THEN [f EXCEPT !.o.events = Append(@, event)]
    ELSE f

\* variant: the success path does not report the shard
completeShard_silent(f) ==
    [f EXCEPT !.stats.completedShards = @ + 1,
              !.stats.activeShards = @ - 1,
              !.w.pc = "done"]

\* processShard after listShardObjects has returned
completeShard(f) ==
    onShardComplete(
        [f EXCEPT !.stats.completedShards = @ + 1,
                  !.stats.activeShards = @ - 1,
                  !.w.pc = "done"],
        [success |-> TRUE, objectCount |-> f.w.shardObjectCount])

\* variant: the catch block leaves activeShards alone
catchShard_noDecrement(f) ==
    onShardComplete([f EXCEPT !.w.pc = "failed"],
                    [success |-> FALSE, objectCount |-> 0])

\* processShard's catch block
catchShard(f) ==
    onShardComplete(
        [f EXCEPT !.stats.activeShards = @ - 1,
                  !.w.pc = "failed"],
        [success |-> FALSE, objectCount |-> 0])

\* variant: the loop asks for another page whatever the response carried
afterPage_always(f, next) == sendList(f, next)

\* continuationToken = response.NextContinuationToken; while (continuationToken)
afterPage(f, next) ==
    IF next # 0 THEN sendList(f, next) ELSE completeShard(f)

\* await processObject(obj, shard) for the i-th object of the batch
callProcessObject(f, i) ==
    [f EXCEPT !.w.pc = "processing",
              !.w.i = i,
              !.o.seen = Append(@, f.w.objects[i]),
              !.o.procInFlight = @ + 1]

\* variant: the update is due as soon as 10000 ms have passed
progressDue_atLeast(f) ==
    /\ opts.onProgress # "none"
    /\ (now - f.stats.lastUpdate) * TickMs >= progressInterval

\* Date.now() - stats.lastUpdate > 10000, with onProgress supplied
progressDue(f) ==
    /\ opts.onProgress # "none"
    /\ (now - f.stats.lastUpdate) * TickMs > progressInterval

\* the end of the batch callback: the progress update, then back in
\* listShardObjects; an onProgress that throws ends in the catch block
endBatch(f, next) ==
    IF progressDue(f)
    THEN LET g == [f EXCEPT !.stats.lastUpdate = now,
                            !.o.progress = Append(@, now)]
         IN  IF opts.onProgress = "throws" THEN catchShard(g) ELSE afterPage(g, next)
    ELSE afterPage(f, next)

\* variant: the loop goes on without awaiting processObject
onBatch_noAwait(f, objects, next) ==
    LET g == [f EXCEPT !.w.shardObjectCount = @ + Len(objects),
                       !.stats.totalObjects = @ + Len(objects),
                       !.w.objects = objects,
                       !.w.nextToken = next,
                       !.o.batches = @ + 1,
                       !.o.delivered = @ \o objects]
    IN  IF opts.processObject
        THEN afterPage(callProcessObject(g, 1), next)
        ELSE endBatch(g, next)

\* the batch callback processShard hands to listShardObjects, up to its first
\* await
onBatch(f, objects, next) ==
    LET g == [f EXCEPT !.w.shardObjectCount = @ + Len(objects),
                       !.stats.totalObjects = @ + Len(objects),
                       !.w.objects = objects,
                       !.w.nextToken = next,
                       !.o.batches = @ + 1,
                       !.o.delivered = @ \o objects]
    IN  IF opts.processObject THEN callProcessObject(g, 1) ELSE endBatch(g, next)

\* listShardObjects after `await s3Client.send(command)` has resolved
onListResponse(f, shard, response) ==
    LET next == response.NextContinuationToken
        f1 == [f EXCEPT !.o.listInFlight = @ - 1, !.o.pages = @ + 1,
                        !.o.tokens = Append(@, next)]
    IN  IF Len(response.Contents) > 0
        THEN LET filteredObjects ==
                    filterObjectsByShard(response.Contents, shard, opts.prefix)
                 f2 == [f1 EXCEPT !.w.totalCount = @ + Len(filteredObjects)]
             IN  IF Len(filteredObjects) > 0
                 THEN onBatch(f2, filteredObjects, next)
                 ELSE afterPage(f2, next)
        ELSE afterPage(f1, next)

\* variant: a resolved processObject call is taken off processedObjects
onProcessed_countsDown(f) ==
    LET f1 == [f EXCEPT !.stats.processedObjects = @ - 1,
                        !.o.procInFlight = @ - 1,
                        !.o.resolved = @ + 1]
    IN  IF f.w.i < Len(f.w.objects)
        THEN callProcessObject(f1, f.w.i + 1)
        ELSE endBatch(f1, f.w.nextToken)

\* the batch callback after `await processObject(obj, shard)` has resolved
onProcessed(f) ==
    LET f1 == [f EXCEPT !.stats.processedObjects = @ + 1,
                        !.o.procInFlight = @ - 1,
                        !.o.resolved = @ + 1]
    IN  IF f.w.i < Len(f.w.objects)
        THEN callProcessObject(f1, f.w.i + 1)
        ELSE endBatch(f1, f.w.nextToken)

\* shards.map((shard, index) => processShard(shard, index + 1)), shard by shard
RECURSIVE launch(_, _, _)
launch(n, st, acc) ==
    IF Len(acc) = n THEN [stats |-> st, frames |-> acc]
    ELSE LET f == startShard([stats |-> st, w |-> newWorker, o |-> newObs])
         IN  launch(n, f.stats, Append(acc, f))

\* variant: the first settled shard is enough
promiseAll_any(ws) == \E s \in DOMAIN ws : ws[s].pc \in {"done", "failed"}

\* await Promise.all(shardPromises): every processShard promise has resolved
promiseAll(ws) == \A s \in DOMAIN ws : ws[s].pc \in {"done", "failed"}

frame(s) == [stats |-> stats, w |-> worker[s], o |-> obs[s]]

\* a worker's step leaves the frame g behind
Store(s, g) ==
    /\ stats' = g.stats
    /\ worker' = [worker EXCEPT ![s] = g.w]
    /\ obs' = [obs EXCEPT ![s] = g.o]
    /\ UNCHANGED <<call, ret, main, opts, storage, shards, now, scriptVars>>

Init ==
    /\ call = NoCall
    /\ ret = NoRet
    /\ main = "idle"
    /\ opts \in [prefix : {RunPrefix}, shardCount : {1, 63},
                 processObject : BOOLEAN, onProgress : {"none"},
                 onShardComplete : BOOLEAN]
    /\ storage \in Buckets
    /\ shards = <<>>
    /\ stats = newStats
    /\ worker = <<>>
    /\ obs = <<>>
    /\ now = 0
    /\ NoScript

\* processShards(options) up to `await Promise.all(shardPromises)`
processShardsCalled ==
    /\ main = "idle"
    /\ LET shs == generateShardsOver(shardChars, opts.prefix, opts.shardCount)
           l == launch(Len(shs), statsAt(now), <<>>)
       IN  /\ shards' = shs
           /\ stats' = l.stats
           /\ worker' = [s \in 1..Len(shs) |-> l.frames[s].w]
           /\ obs' = [s \in 1..Len(shs) |-> l.frames[s].o]
    /\ main' = "running"
    /\ UNCHANGED <<call, ret, opts, storage, now>>

\* a caller calls processShards
Start == processShardsCalled /\ UNCHANGED scriptVars

\* storage answers the list request of shard s with a page
ListResolve(s) ==
    /\ main = "running"
    /\ worker[s].pc = "listing"
    /\ LET token == worker[s].continuationToken
           left == Len(listing(storage, shards[s].prefix)) - token
       IN  \E n \in pageSizes(left) :
              Store(s, onListResponse(frame(s), shards[s],
                        listResponse(storage, shards[s].prefix, token, n)))

\* variant: a rejected list request is sent again
ListReject_retry(s) ==
    /\ main = "running"
    /\ worker[s].pc = "listing"
    /\ Store(s, sendList([frame(s) EXCEPT !.o.listInFlight = @ - 1,
                                           !.o.rejected = TRUE],
                         worker[s].continuationToken))

\* the list request of shard s rejects
ListReject(s) ==
    /\ main = "running"
    /\ worker[s].pc = "listing"
    /\ Store(s, catchShard([frame(s) EXCEPT !.o.listInFlight = @ - 1,
                                             !.o.rejected = TRUE]))

\* variant: a resolved processObject call is counted twice
ProcessResolve_countedTwice(s) ==
    /\ main = "running"
    /\ worker[s].pc = "processing"
    /\ Store(s, onProcessed([frame(s) EXCEPT !.stats.processedObjects = @ + 1]))

\* processObject resolves for the object shard s is waiting on
ProcessResolve(s) ==
    /\ main = "running"
    /\ worker[s].pc = "processing"
    /\ Store(s, onProcessed(frame(s)))

\* variant: the catch block takes the failed shard's objects out of totalObjects
ProcessReject_rollback(s) ==
    /\ main = "running"
    /\ worker[s].pc = "processing"
    /\ Store(s, catchShard([frame(s) EXCEPT
                    !.o.procInFlight = @ - 1,
                    !.o.rejected = TRUE,
                    !.stats.totalObjects = @ - frame(s).w.shardObjectCount]))

\* processObject rejects for the object shard s is waiting on
ProcessReject(s) ==
    /\ main = "running"
    /\ worker[s].pc = "processing"
    /\ Store(s, catchShard([frame(s) EXCEPT !.o.procInFlight = @ - 1,
                                             !.o.rejected = TRUE]))

\* return stats
processShardsReturns ==
    /\ main = "running"
    /\ promiseAll(worker)
    /\ main' = "resolved"
    /\ UNCHANGED <<call, ret, opts, storage, shards, stats, worker, obs, now>>

\* processShards returns stats to a caller
Resolve == processShardsReturns /\ UNCHANGED scriptVars

Next ==
    \/ Start
    \/ \E s \in DOMAIN worker : ListResolve(s)
    \/ \E s \in DOMAIN worker : ListReject(s)
    \/ \E s \in DOMAIN worker : ProcessResolve(s)
    \/ \E s \in DOMAIN worker : ProcessReject(s)
    \/ Resolve

Spec == Init /\ [][Next]_vars

\* storage answers every list request, processObject settles every call and
\* the event loop runs every continuation that is ready
InitFair ==
    /\ Init
    /\ opts.onShardComplete
    /\ Cardinality(storage) <= MaxTimedStored

SpecFair == InitFair /\ [][Next]_vars /\ WF_vars(Next)

(***************************************************************************)
(* SpecInvalid: processShards called with a shardCount outside 1..256      *)
(***************************************************************************)
InvalidCounts == {-1, 0, 257}

InitInvalid ==
    /\ call = NoCall
    /\ ret = NoRet
    /\ main = "idle"
    /\ opts \in [prefix : {RunPrefix}, shardCount : InvalidCounts,
                 processObject : BOOLEAN, onProgress : {"none"},
                 onShardComplete : {TRUE}]
    /\ storage \in {S \in Buckets : Cardinality(S) <= MaxTimedStored}
    /\ shards = <<>>
    /\ stats = newStats
    /\ worker = <<>>
    /\ obs = <<>>
    /\ now = 0
    /\ NoScript

SpecInvalid == InitInvalid /\ [][Next]_vars

(***************************************************************************)
(* SpecTimed: the same run with a clock that advances between the steps    *)
(* and an onProgress callback that returns or throws                       *)
(***************************************************************************)
TimedBuckets ==
    {S \in Buckets : /\ Cardinality(S) <= MaxTimedStored
                     /\ \A k \in S : startsWith(k, RunPrefix) /\ Len(k) > Len(RunPrefix)}

InitTimed ==
    /\ call = NoCall
    /\ ret = NoRet
    /\ main = "idle"
    /\ opts \in [prefix : {RunPrefix}, shardCount : {63},
                 processObject : BOOLEAN, onProgress : {"none", "returns", "throws"},
                 onShardComplete : {TRUE}]
    /\ storage \in TimedBuckets
    /\ shards = <<>>
    /\ stats = newStats
    /\ worker = <<>>
    /\ obs = <<>>
    /\ now = 0
    /\ NoScript

\* time passes while the run waits for storage or processObject
Tick ==
    /\ main = "running"
    /\ now < MaxTicks
    /\ now' = now + 1
    /\ UNCHANGED <<call, ret, main, opts, storage, shards, stats, worker, obs, scriptVars>>

NextTimed == Next \/ Tick

SpecTimed == InitTimed /\ [][NextTimed]_vars

(***************************************************************************)
(* SpecFinder: the sharded gzip finder (find-gzip-files.js, sharded), a    *)
(* caller of processShards.  The folder name '.da-versions' is one element *)
(* of a key.                                                               *)
(***************************************************************************)
\* key.includes('/.da-versions/')
inDaVersions(key) ==
    \E i \in 1..(Len(key) - 2) :
        key[i] = "/" /\ key[i + 1] = ".da-versions" /\ key[i + 2] = "/"

\* the options main hands to processShards
finderOptions ==
    [prefix |-> RunPrefix, shardCount |-> 63, processBatch |-> TRUE,
     onProgress |-> "returns", onShardComplete |-> TRUE]

\* const { prefix, shardCount = 63, processObject, onProgress, onShardComplete } = options
destructured(options) ==
    [prefix |-> options.prefix,
     shardCount |-> IF "shardCount" \in DOMAIN options THEN options.shardCount ELSE 63,
     processObject |-> "processObject" \in DOMAIN options,
     onProgress |-> IF "onProgress" \in DOMAIN options THEN options.onProgress ELSE "none",
     onShardComplete |-> "onShardComplete" \in DOMAIN options]

\* fs.createWriteStream(...); stream.write('FilePath,ContentLength,LastModified\n')
openStream == [noStream EXCEPT !.open = TRUE, !.header = TRUE]

\* stream.write(row)
writeRow(stream, row) ==
    IF stream.ended
    THEN [stream EXCEPT !.late = @ + 1]
    ELSE [stream EXCEPT !.rows = Append(@, row)]

\* stream.end()
endStream(stream) == [stream EXCEPT !.ended = TRUE]

InitFinder ==
    /\ call = NoCall
    /\ ret = NoRet
    /\ main = "idle"
    /\ opts = destructured(finderOptions)
    /\ storage \in {S \in Buckets : Cardinality(S) <= MaxTimedStored}
    /\ shards = <<>>
    /\ stats = newStats
    /\ worker = <<>>
    /\ obs = <<>>
    /\ now = 0
    /\ NoScript

\* main up to `await processShards({...})`
FinderMain ==
    /\ processShardsCalled
    /\ out' = openStream
    /\ UNCHANGED <<detailedStats, folders>>

\* main after processShards has returned: the results, then the finally block
FinderDone ==
    /\ processShardsReturns
    /\ out' = endStream(out)
    /\ UNCHANGED <<detailedStats, folders>>

NextFinder ==
    \/ FinderMain
    \/ \E s \in DOMAIN worker : ListResolve(s)
    \/ \E s \in DOMAIN worker : ListReject(s)
    \/ FinderDone

SpecFinder == InitFinder /\ [][NextFinder]_vars

(***************************************************************************)
(* SpecLegacy: the hex sharding of the earlier traverse.js: its plan and,  *)
(* key by key, which of its listShard workers write a key to the CSV       *)
(***************************************************************************)
hexChars ==
    <<"0", "1", "2", "3", "4", "5", "6", "7", "8", "9", "a", "b", "c", "d", "e", "f">>

\* Math.ceil(a / b)
ceilDiv(a, b) == (a + b - 1) \div b

\* array.slice(0, count)
slice0(array, count) ==
    SubSeq(array, 1, IF count < Len(array) THEN count ELSE Len(array))

\* for (let i = 0; i < limit; i += step): the values of i, in order
steps(limit, step) == [k \in 1..ceilDiv(limit, step) |-> (k - 1) * step]

\* generateShardPrefixes(basePrefix, count) of the earlier traverse.js
legacyGenerateShardPrefixes(basePrefix, count) ==
    IF count = 1 THEN <<[prefix |-> basePrefix, type |-> "catch-all"]>>
    ELSE LET hexShardCount == count - 1
             catchAll == <<[prefix |-> basePrefix, type |-> "catch-all"]>>
             single == LET is == steps(16, ceilDiv(16, hexShardCount))
                       IN  [k \in DOMAIN is |->
                              [prefix |-> Append(basePrefix, hexChars[is[k] + 1]),
                               type |-> "hex"]]
             double == LET is == steps(256, ceilDiv(256, hexShardCount))
                       IN  [k \in DOMAIN is |->
                              [prefix |-> basePrefix
                                            \o <<hexChars[(is[k] \div 16) + 1],
                                                 hexChars[(is[k] % 16) + 1]>>,
                               type |-> "hex"]]
         IN  slice0(catchAll \o (IF hexShardCount <= 16 THEN single ELSE double), count)

\* /^[0-9a-f]/i
hexPattern ==
    Range(hexChars) \cup {"A", "B", "C", "D", "E", "F"}

\* the filter of the catch-all in listShard:
\* keyAfterPrefix && !hexPattern.test(keyAfterPrefix)
legacyKeep(key, shardPrefix) ==
    LET keyAfterPrefix == substring(key, Len(shardPrefix))
    IN  keyAfterPrefix # <<>> /\ keyAfterPrefix[1] \notin hexPattern

\* listShard(shard) writes key: storage lists it under the shard's prefix
\* and the catch-all's filter keeps it
legacyWrites(key, shard) ==
    /\ startsWith(key, shard.prefix)
    /\ shard.type = "catch-all" => legacyKeep(key, shard.prefix)

\* shard-count values the script accepts (1..256)
LegacyCounts == {1, 2, 5, 9, 16, 17, 18, 256}

InitLegacy ==
    /\ call \in UNION {
            {[op |-> "legacy", basePrefix |-> bp, count |-> n, key |-> k, objects |-> <<>>] :
                n \in LegacyCounts, k \in KeysFor(bp)}
            : bp \in BasePrefixes}
    /\ ret = NoRet
    /\ NoRun

\* main: the validation of shardCount passed, the plan is generated
LegacyPlan ==
    /\ call.op = "legacy"
    /\ ~(call.count < 1 \/ call.count > 256)
    /\ ~ret.planned
    /\ ret' = [ret EXCEPT !.planned = TRUE,
                          !.shards = legacyGenerateShardPrefixes(call.basePrefix, call.count)]
    /\ UNCHANGED <<call, runVars>>

\* every listShard worker has listed its prefix to the end
LegacyList ==
    /\ call.op = "legacy"
    /\ ret.planned /\ ~ret.answered
    /\ ret' = [ret EXCEPT !.answered = TRUE,
                          !.owners = {i \in 1..Len(ret.shards) :
                                         legacyWrites(call.key, ret.shards[i])}]
    /\ UNCHANGED <<call, runVars>>

NextLegacy == LegacyPlan \/ LegacyList

SpecLegacy == InitLegacy /\ [][NextLegacy]_vars

(***************************************************************************)
(* SpecRecursive: the recursive folder finder (encoding/find-gzip-files.js)*)
(* on a folder tree; storage answers a delimited list request with full    *)
(* pages of MaxKeys entries, keys and common prefixes counted together.    *)
(* obs is the log of the HeadObject requests sent.                         *)
(***************************************************************************)
\* the keys a bucket of folders can hold, in the store's lexicographic order
TreeOrder ==
    <<  <<"d", "/", ".da-versions", "/", "x">>,
        <<"d", "/", "a">>,
        <<"d", "/", "f", "/", "a">>,
        <<"d", "/", "f", "/", "g", "/", "a">>,
        <<"d", "/", "g", "/", "a">>,
        <<"d", "/", "h">>  >>

TreeBuckets == {S \in SUBSET Range(TreeOrder) : Cardinality(S) <= MaxTreeStored}

\* the position of the first x in s
indexOf(s, x) == CHOOSE i \in 1..Len(s) : s[i] = x /\ \A j \in 1..(i - 1) : s[j] # x

\* the entry a key gives under Prefix with Delimiter '/': the key itself, or
\* the common prefix up to the first '/' after Prefix
entryOf(key, prefix) ==
    LET rest == substring(key, Len(prefix))
    IN  IF includes(rest, "/")
        THEN [kind |-> "prefix", name |-> prefix \o SubSeq(rest, 1, indexOf(rest, "/"))]
        ELSE [kind |-> "key", name |-> key]

\* the entries of the sorted keys ks, each common prefix once
RECURSIVE entries(_, _, _)
entries(ks, prefix, acc) ==
    IF ks = <<>> THEN acc
    ELSE LET e == entryOf(Head(ks), prefix)
         IN  IF acc # <<>> /\ acc[Len(acc)] = e
             THEN entries(Tail(ks), prefix, acc)
             ELSE entries(Tail(ks), prefix, Append(acc, e))

\* response of ListObjectsV2(Prefix, Delimiter: '/', MaxKeys, ContinuationToken);
\* a token is the number of entries already returned, 0 is no token
delimitedPage(keys, prefix, token) ==
    LET es == entries(SelectSeq(TreeOrder,
                        LAMBDA k : k \in keys /\ startsWith(k, prefix)), prefix, <<>>)
        last == IF token + MaxKeys < Len(es) THEN token + MaxKeys ELSE Len(es)
        page == SubSeq(es, token + 1, last)
        names(kind) == LET sel == SelectSeq(page, LAMBDA e : e.kind = kind)
                       IN  [i \in DOMAIN sel |-> sel[i].name]
    IN  [Contents |-> names("key"),
         CommonPrefixes |-> names("prefix"),
         NextContinuationToken |-> IF last < Len(es) THEN last ELSE 0]

\* array.slice(i, i + size)
sliceAt(array, i, size) ==
    SubSeq(array, i + 1, IF i + size < Len(array) THEN i + size ELSE Len(array))

\* processFolder(bucket, folderPrefix) up to its first await
newFolder ==
    [pc |-> "listing", continuationToken |-> 0, allObjects |-> <<>>,
     filteredObjects |-> <<>>, i |-> 0, pending |-> {},
     subfolders |-> <<>>, j |-> 0]

InitRecursive ==
    /\ call = NoCall
    /\ ret = NoRet
    /\ main = "idle"
    /\ opts = [prefix |-> RunPrefix]
    /\ storage \in TreeBuckets
    /\ shards = <<>>
    /\ stats = newStats
    /\ worker = <<>>
    /\ obs = <<>>
    /\ now = 0
    /\ NoScript

recFixed == <<call, ret, opts, storage, shards, stats, worker, now>>

\* main up to `await processFolder(bucket, prefix, 25)`
RecursiveMain ==
    /\ main = "idle"
    /\ main' = "running"
    /\ out' = openStream
    /\ folders' = [q \in {opts.prefix} |-> newFolder]
    /\ UNCHANGED <<recFixed, obs, detailedStats>>

\* processBatchImmediate at `batch = filteredObjects.slice(i, i + batchSize)`:
\* the keys HeadObject is sent for
checksSent(fr, i) ==
    IF i < Len(fr.filteredObjects) THEN sliceAt(fr.filteredObjects, i, BatchSize) ELSE <<>>

\* processFolder from sub-batch i of processBatchImmediate on, up to the next
\* await: the HeadObject calls of the sub-batch, or discoverSubfolders
continueFolder(fr, i) ==
    IF i < Len(fr.filteredObjects)
    THEN [fr EXCEPT !.pc = "checking", !.i = i, !.pending = Range(checksSent(fr, i))]
    ELSE [fr EXCEPT !.pc = "discovering", !.pending = {}]

\* listCurrentFolderObjects after `await s3Client.send(command)` has resolved
FolderListResolve(p) ==
    /\ main = "running"
    /\ folders[p].pc = "listing"
    /\ LET fr == folders[p]
           response == delimitedPage(storage, p, fr.continuationToken)
           allObjects == fr.allObjects \o response.Contents
       IN  IF response.NextContinuationToken # 0
           THEN /\ folders' = [folders EXCEPT ![p] =
                    [fr EXCEPT !.allObjects = allObjects,
                               !.continuationToken = response.NextContinuationToken]]
                /\ obs' = obs
           ELSE LET g == [fr EXCEPT
                            !.allObjects = allObjects,
                            !.filteredObjects =
                                SelectSeq(allObjects, LAMBDA k : ~inDaVersions(k))]
                IN  /\ folders' = [folders EXCEPT ![p] = continueFolder(g, 0)]
                    /\ obs' = obs \o checksSent(g, 0)
    /\ UNCHANGED <<recFixed, main, out, detailedStats>>

\* the folder p after one HeadObject call of its sub-batch has settled
afterCheck(p, k) ==
    LET fr == folders[p]
        left == fr.pending \ {k}
    IN  IF left # {}
        THEN /\ folders' = [folders EXCEPT ![p] = [fr EXCEPT !.pending = left]]
             /\ obs' = obs
        ELSE /\ folders' = [folders EXCEPT ![p] = continueFolder(fr, fr.i + BatchSize)]
             /\ obs' = obs \o checksSent(fr, fr.i + BatchSize)

\* checkFileEncoding: HeadObject has resolved
HeadResolve(p) ==
    /\ main = "running"
    /\ folders[p].pc = "checking"
    /\ \E k \in folders[p].pending, gzip \in BOOLEAN :
          /\ detailedStats' =
                IF gzip
                THEN [detailedStats EXCEPT !.totalFiles = @ + 1, !.gzipFiles = @ + 1]
                ELSE [detailedStats EXCEPT !.totalFiles = @ + 1, !.nonGzipFiles = @ + 1]
          /\ out' = writeRow(out, k)
          /\ afterCheck(p, k)
    /\ UNCHANGED <<recFixed, main>>

\* checkFileEncoding: HeadObject has rejected, caught in checkFileEncoding
HeadReject(p) ==
    /\ main = "running"
    /\ folders[p].pc = "checking"
    /\ \E k \in folders[p].pending :
          /\ detailedStats' = [detailedStats EXCEPT !.errors = @ + 1]
          /\ afterCheck(p, k)
    /\ UNCHANGED <<recFixed, main, out>>

\* processFolder at the subfolder batch j: the processFolder calls of the
\* batch, or its return when no subfolder is left
subfolderBatch(p, fr, j) ==
    IF j < Len(fr.subfolders)
    THEN LET batch == Range(sliceAt(fr.subfolders, j, MaxConcurrentSubfolders))
         IN  [q \in DOMAIN folders \cup batch |->
                IF q = p THEN [fr EXCEPT !.pc = "waiting", !.j = j]
                ELSE IF q \in batch THEN newFolder
                ELSE folders[q]]
    ELSE [folders EXCEPT ![p] = [fr EXCEPT !.pc = "done"]]

\* discoverSubfolders after its one list request has resolved
DiscoverResolve(p) ==
    /\ main = "running"
    /\ folders[p].pc = "discovering"
    /\ LET response == delimitedPage(storage, p, 0)
           subfolders == SelectSeq(response.CommonPrefixes, LAMBDA q : ~inDaVersions(q))
       IN  folders' = subfolderBatch(p, [folders[p] EXCEPT !.subfolders = subfolders], 0)
    /\ UNCHANGED <<recFixed, main, obs, out, detailedStats>>

\* await Promise.all(subfolderPromises) has resolved
FolderJoin(p) ==
    /\ main = "running"
    /\ folders[p].pc = "waiting"
    /\ \A q \in Range(sliceAt(folders[p].subfolders, folders[p].j, MaxConcurrentSubfolders)) :
          folders[q].pc = "done"
    /\ folders' = subfolderBatch(p, folders[p], folders[p].j + MaxConcurrentSubfolders)
    /\ UNCHANGED <<recFixed, main, obs, out, detailedStats>>

\* a list request rejects: processFolder rejects up to main's catch block
FolderListReject(p) ==
    /\ main = "running"
    /\ folders[p].pc \in {"listing", "discovering"}
    /\ main' = "exited"
    /\ out' = endStream(out)
    /\ UNCHANGED <<recFixed, obs, detailedStats, folders>>

\* main after processFolder has returned totalObjects
RecursiveDone ==
    /\ main = "running"
    /\ folders[opts.prefix].pc = "done"
    /\ main' = "resolved"
    /\ out' = IF \A q \in DOMAIN folders : folders[q].allObjects = <<>>
              THEN out
              ELSE endStream(out)
    /\ UNCHANGED <<recFixed, obs, detailedStats, folders>>

NextRecursive ==
    \/ RecursiveMain
    \/ \E p \in DOMAIN folders : FolderListResolve(p)
    \/ \E p \in DOMAIN folders : HeadResolve(p)
    \/ \E p \in DOMAIN folders : HeadReject(p)
    \/ \E p \in DOMAIN folders : DiscoverResolve(p)
    \/ \E p \in DOMAIN folders : FolderJoin(p)
    \/ \E p \in DOMAIN folders : FolderListReject(p)
    \/ RecursiveDone

SpecRecursive == InitRecursive /\ [][NextRecursive]_vars

(***************************************************************************)
(* traverse.js: the CSV exporter, with its own listShard and stats          *)
(*                                                                         *)
(* worker[s] holds the locals of listShard for shard s, obs[s] the keys its *)
(* keysToProcess arrays held, out the output stream.                       *)
(***************************************************************************)
\* const stats = {...}, created at time t
csvStatsAt(t) ==
    [totalKeys |-> 0, totalShards |-> 0, completedShards |-> 0,
     activeShards |-> 0, startTime |-> t, lastUpdate |-> t]

\* for (const obj of keysToProcess) outputStream.write(...)
RECURSIVE writeRows(_, _)
writeRows(stream, keys) ==
    IF keys = <<>> THEN stream
    ELSE writeRows(writeRow(stream, Head(keys)), Tail(keys))

InitCsv ==
    /\ call = NoCall
    /\ ret = NoRet
    /\ main = "idle"
    /\ opts = [prefix |-> RunPrefix, shardCount |-> 63]
    /\ storage \in Buckets
    /\ shards = <<>>
    /\ stats = csvStatsAt(0)
    /\ worker = <<>>
    /\ obs = <<>>
    /\ now = 0
    /\ NoScript

csvFixed == <<call, ret, opts, storage, now, detailedStats, folders>>

\* main up to `await Promise.all(shardPromises)`: the stream and its header,
\* then every listShard up to its first await
CsvMain ==
    /\ main = "idle"
    /\ out' = openStream
    /\ LET shs == generateShardsOver(shardChars, opts.prefix, opts.shardCount) IN
          /\ shards' = shs
          /\ stats' = [stats EXCEPT !.startTime = now,
                                    !.lastUpdate = now,
                                    !.totalShards = @ + Len(shs),
                                    !.activeShards = @ + Len(shs)]
          /\ worker' = [s \in 1..Len(shs) |->
                          [pc |-> "listing", continuationToken |-> 0, shardKeyCount |-> 0]]
          /\ obs' = [s \in 1..Len(shs) |-> <<>>]
    /\ main' = "running"
    /\ UNCHANGED csvFixed

\* listShard after `await s3Client.send(command)` has resolved with a page
CsvListResolve(s) ==
    /\ worker[s].pc = "listing"
    /\ LET token == worker[s].continuationToken
           left == Len(listing(storage, shards[s].prefix)) - token
       IN  \E n \in pageSizes(left) :
             LET response == listResponse(storage, shards[s].prefix, token, n)
                 keysToProcess ==
                     IF Len(response.Contents) > 0
                     THEN filterObjectsByShard(response.Contents, shards[s], opts.prefix)
                     ELSE <<>>
                 counted == [stats EXCEPT
                     !.totalKeys = @ + Len(keysToProcess),
                     !.lastUpdate = IF now - @ > progressInterval THEN now ELSE @]
             IN  /\ out' = writeRows(out, keysToProcess)
                 /\ obs' = [obs EXCEPT ![s] = @ \o keysToProcess]
                 /\ IF response.NextContinuationToken # 0
                    THEN /\ stats' = counted
                         /\ worker' = [worker EXCEPT ![s] =
                              [@ EXCEPT !.shardKeyCount = @ + Len(keysToProcess),
                                        !.continuationToken = response.NextContinuationToken]]
                    ELSE /\ stats' = [counted EXCEPT !.completedShards = @ + 1,
                                                     !.activeShards = @ - 1]
                         /\ worker' = [worker EXCEPT ![s] =
                              [@ EXCEPT !.shardKeyCount = @ + Len(keysToProcess),
                                        !.pc = "done"]]
    /\ UNCHANGED <<csvFixed, main, shards>>

\* listShard's catch block: the list request has rejected
CsvListReject(s) ==
    /\ worker[s].pc = "listing"
    /\ stats' = [stats EXCEPT !.activeShards = @ - 1]
    /\ worker' = [worker EXCEPT ![s] = [@ EXCEPT !.pc = "failed"]]
    /\ UNCHANGED <<csvFixed, main, shards, obs, out>>

\* variant: the first settled listShard is enough
shardPromisesSettled_first(ws) == \E s \in DOMAIN ws : ws[s].pc \in {"done", "failed"}

\* await Promise.all(shardPromises): every listShard promise has resolved
shardPromisesSettled(ws) == \A s \in DOMAIN ws : ws[s].pc \in {"done", "failed"}

\* main after `await Promise.all(shardPromises)`: outputStream.end()
CsvEnd ==
    /\ main = "running"
    /\ shardPromisesSettled(worker)
    /\ out' = endStream(out)
    /\ main' = "resolved"
    /\ UNCHANGED <<csvFixed, shards, stats, worker, obs>>

NextCsv ==
    \/ CsvMain
    \/ \E s \in DOMAIN worker : CsvListResolve(s)
    \/ \E s \in DOMAIN worker : CsvListReject(s)
    \/ CsvEnd

SpecCsv == InitCsv /\ [][NextCsv]_vars
underPrefix(key, bp) == startsWith(key, bp)

firstAfter(key, bp) == substring(key, Len(bp))[1]

\* how often key k occurs in the sequences log[s], over all shards s
occurrences(log, k) ==
    Cardinality({p \in UNION {{<<s, i>> : i \in 1..Len(log[s])} : s \in DOMAIN log} :
                    log[p[1]][p[2]] = k})

deliveredLog == [s \in DOMAIN obs |-> obs[s].delivered]

seenLog == [s \in DOMAIN obs |-> obs[s].seen]

isPrefixOf(a, b) == Len(a) <= Len(b) /\ SubSeq(b, 1, Len(a)) = a

\* what shard s has to deliver: its listing, less the keys other shards own
shardListing(s) ==
    SelectSeq(listing(storage, shards[s].prefix),
              LAMBDA k : keyBelongsToShard(k, shards[s], opts.prefix))

allSucceeded == main = "resolved" /\ \A s \in DOMAIN worker : worker[s].pc = "done"

\* C1: every key that starts with the base prefix (the base prefix itself
\* included) is accepted by exactly one descriptor of generateShardPrefixes,
\* for every requested count and every first character
C1_ExactlyOneOwner ==
    (call.op = "belongs" /\ ret.answered /\ underPrefix(call.key, call.basePrefix))
        => Cardinality(ret.owners) = 1

C1_Witness ==
    /\ call.op = "belongs" /\ ret.answered
    /\ call.count = 16
    /\ call.basePrefix = <<"d", "/">>
    /\ call.key = <<"d", "/", ".", "a">>
    /\ ret.owners = {66}

\* C2: when processShards has returned and every shard succeeded, each key
\* of the bucket under the base prefix was handed to the batch callback (and
\* to processObject, when supplied) exactly once over all shards, no other
\* key was, and stats.totalObjects is the number of keys under the prefix
C2_ExactlyOnce ==
    allSucceeded =>
        /\ \A k \in Range(KeyOrder) :
              LET n == IF k \in storage /\ underPrefix(k, opts.prefix) THEN 1 ELSE 0
              IN  /\ occurrences(deliveredLog, k) = n
                  /\ opts.processObject => occurrences(seenLog, k) = n
        /\ stats.totalObjects =
              Cardinality({k \in storage : underPrefix(k, opts.prefix)})

C2_Witness ==
    /\ allSucceeded
    /\ opts.shardCount = 63 /\ opts.processObject
    /\ storage = {<<"d", "/">>, <<"d", "/", "_">>, <<"d", "/", "a">>}
    /\ stats.totalObjects = 3

\* C3 (state part): when processShards has returned, every shard is
\* Completed or Failed, and every Completed shard has delivered its whole
\* listing whatever happened to its siblings
C3_SiblingsFinish ==
    main = "resolved" =>
        \A s \in DOMAIN worker :
            /\ worker[s].pc \in {"done", "failed"}
            /\ worker[s].pc = "done" => obs[s].delivered = shardListing(s)

\* C3 (step part): a rejected list call of shard s is caught in its worker:
\* activeShards drops by one, the shard is reported once with success=false,
\* no sibling worker changes and processShards keeps running
C3_RejectionCaught ==
    \A s \in DOMAIN worker :
        (worker[s].pc = "listing" /\ worker'[s].pc = "failed") =>
            /\ stats'.activeShards = stats.activeShards - 1
            /\ opts.onShardComplete =>
                  obs'[s].events = <<[success |-> FALSE, objectCount |-> 0]>>
            /\ main' = "running"
            /\ \A t \in DOMAIN worker : t # s => worker'[t] = worker[t]

C6_CountHonoured ==
    (ret.planned /\ call.count > 1) =>
        /\ Len(ret.shards) = call.count
        /\ ret.shards[1].type = "catch-all"
        /\ ret.shardStats.total = call.count
        /\ ret.shardStats.catchAll = 1
        /\ ret.shardStats.alphanum = call.count - 1

\* C7: for a plan with count > 1 the catch-all (the first descriptor)
\* accepts a key whose first character after the base prefix is '.', '_'
\* or '-'
C7_CatchAllTakesDotUnderscoreDash ==
    (/\ call.op = "belongs" /\ ret.answered /\ call.count > 1
     /\ underPrefix(call.key, call.basePrefix)
     /\ Len(call.key) > Len(call.basePrefix)
     /\ firstAfter(call.key, call.basePrefix) \in {".", "_", "-"})
        => 1 \in ret.owners

\* C8: for every generated shard and every batch whose keys all start with
\* the shard's listing prefix, filterObjectsByShard returns exactly the
\* objects keyBelongsToShard accepts, in input order
C8_FilterIsOracle ==
    (call.op = "filter" /\ ret.answered) =>
        \A i \in 1..Len(ret.shards) :
            (\A j \in 1..Len(call.objects) :
                startsWith(call.objects[j], ret.shards[i].prefix))
            => ret.filtered[i] =
                  SelectSeq(call.objects,
                            LAMBDA k : keyBelongsToShard(k, ret.shards[i], call.basePrefix))

C8_Witness ==
    /\ call.op = "filter" /\ ret.answered
    /\ call.count = 16 /\ call.basePrefix = <<"d", "/">>
    /\ call.objects = <<<<"d", "/", "a">>, <<"d", "/", "@">>>>
    /\ ret.filtered[1] = <<<<"d", "/", "@">>>>

\* C9: a shard has at most one list request or processObject call in flight;
\* a list request is in flight only when every object of the pages before it
\* has been processed; objects are delivered and processed in listing order
C9_OnePageAtATime ==
    \A s \in DOMAIN worker :
        /\ obs[s].listInFlight + obs[s].procInFlight <= 1
        /\ (obs[s].listInFlight = 1 /\ opts.processObject) =>
              obs[s].resolved = Len(obs[s].delivered)
        /\ isPrefixOf(obs[s].delivered, shardListing(s))
        /\ isPrefixOf(obs[s].seen, obs[s].delivered)
        /\ obs[s].resolved + obs[s].procInFlight <= Len(obs[s].seen)
        /\ Len(obs[s].seen) <= obs[s].resolved + 1

C9_Witness ==
    \E s, t \in DOMAIN worker :
        /\ s # t
        /\ obs[s].procInFlight = 1 /\ Len(obs[s].requests) = 2
        /\ obs[t].procInFlight = 1

\* C10: the number of batch-callback invocations of a shard equals the
\* number of pages storage has returned for it
C10_BatchPerPage ==
    \A s \in DOMAIN worker : obs[s].batches = obs[s].pages

\* the shards whose onShardComplete event carries success = ok
reported(ok) ==
    {s \in DOMAIN obs : Len(obs[s].events) = 1 /\ obs[s].events[1].success = ok}

RECURSIVE sumTo(_, _)
sumTo(fn, n) == IF n = 0 THEN 0 ELSE fn[n] + sumTo(fn, n - 1)

C12_Counted ==
    /\ stats.totalObjects =
          sumTo([s \in DOMAIN obs |-> Len(obs[s].delivered)], Len(obs))
    /\ stats.processedObjects =
          sumTo([s \in DOMAIN obs |-> obs[s].resolved], Len(obs))

\* C12 (step part): the step in which shard s fails takes back nothing: the
\* objects s has delivered stay delivered, totalObjects and processedObjects
\* keep their values, and no sibling's worker or observations change
C12_FailureKeeps ==
    \A s \in DOMAIN worker :
        (worker[s].pc # "failed" /\ worker'[s].pc = "failed") =>
            /\ stats'.totalObjects = stats.totalObjects
            /\ stats'.processedObjects = stats.processedObjects
            /\ obs'[s].delivered = obs[s].delivered
            /\ obs'[s].seen = obs[s].seen
            /\ \A t \in DOMAIN worker :
                  t # s => worker'[t] = worker[t] /\ obs'[t] = obs[t]

\* C12: no rollback on shard failure
C12_NoRollback == []C12_Counted /\ [][C12_FailureKeeps]_vars

C12_Witness ==
    /\ main = "resolved"
    /\ stats.totalObjects = 2
    /\ \E s, t \in DOMAIN worker :
          /\ worker[s].pc = "failed" /\ obs[s].pages = 1 /\ Len(obs[s].delivered) = 1
          /\ worker[t].pc = "done" /\ Len(obs[t].delivered) = 1

\* C13: a run started with a shard count outside 1..256 fails fast: it
\* starts no worker and sends no list request
C13_InvalidCountFailsFast ==
    (opts.shardCount < 1 \/ opts.shardCount > 256) =>
        /\ worker = <<>>
        /\ \A s \in DOMAIN obs : obs[s].requests = <<>>

\* C14 (state part): a shard asks for a page after the first only with the
\* continuation token of the page before it, the first page that carries no
\* token is the last page the shard receives, and a Completed shard has
\* received that page and has no list request in flight
C14_StopsAtLastPage ==
    \A s \in DOMAIN worker :
        LET o == obs[s]
        IN  /\ Len(o.requests) <= Len(o.tokens) + 1
            /\ \A i \in 2..Len(o.requests) : o.requests[i] = o.tokens[i - 1]
            /\ \A i \in 1..(Len(o.tokens) - 1) : o.tokens[i] # 0
            /\ (Len(o.tokens) > 0 /\ o.tokens[Len(o.tokens)] = 0) =>
                  Len(o.requests) = Len(o.tokens)
            /\ worker[s].pc = "done" =>
                  /\ Len(o.tokens) > 0 /\ o.tokens[Len(o.tokens)] = 0
                  /\ o.listInFlight = 0

\* C14 (progress part): every worker ends Completed or Failed and
\* processShards returns
C14_Returns ==
    /\ main = "resolved"
    /\ Len(worker) = Len(shards)
    /\ \A s \in DOMAIN worker : worker[s].pc \in {"done", "failed"}

\* C14: the pagination loop stops at the first page without a continuation
\* token, and since every listing ends after finitely many pages every worker
\* eventually finishes and processShards eventually returns
C14_Termination == []C14_StopsAtLastPage /\ <>C14_Returns

C14_Witness ==
    /\ main = "resolved"
    /\ \E s \in DOMAIN worker :
          /\ worker[s].pc = "done"
          /\ obs[s].requests = <<0, 1>>
          /\ obs[s].tokens = <<1, 0>>

\* C15 (step part): a worker moves Listing -> Completed or Failed, waiting
\* on processObject in between being part of Listing; a Completed or Failed
\* worker never changes again and no list request is sent for its shard, so
\* none after a rejected list call
C15_Transitions ==
    \A s \in DOMAIN worker :
        /\ worker[s].pc \in {"listing", "processing"} =>
              worker'[s].pc \in {"listing", "processing", "done", "failed"}
        /\ worker[s].pc \in {"done", "failed"} =>
              /\ worker'[s] = worker[s]
              /\ obs'[s].requests = obs[s].requests
              /\ obs'[s].events = obs[s].events

\* C15 (state part): no shard is worked on before processShards is called,
\* every worker is past Pending once it is, a Failed worker has no list
\* request in flight, and no (shard, continuation token) is requested twice
C15_NoRepeat ==
    /\ main = "idle" => worker = <<>>
    /\ main # "idle" => Len(worker) = Len(shards)
    /\ \A s \in DOMAIN worker :
          /\ worker[s].pc \in {"listing", "processing", "done", "failed"}
          /\ worker[s].pc = "failed" => obs[s].listInFlight = 0
          /\ \A i, j \in 1..Len(obs[s].requests) :
                i # j => obs[s].requests[i] # obs[s].requests[j]

\* C15: the worker state machine, no retry, no repeated request
C15_StateMachine == []C15_NoRepeat /\ [][C15_Transitions]_vars

C15_Witness ==
    /\ main = "resolved"
    /\ \E s, t \in DOMAIN worker :
          /\ worker[s].pc = "failed" /\ obs[s].requests = <<0, 1>> /\ obs[s].pages = 1
          /\ worker[t].pc = "done" /\ obs[t].requests = <<0, 1>>

\* C16: onProgress is advisory: in a run in which no list request and no
\* processObject call is rejected, every shard ends Completed with its whole
\* listing delivered and every key under the prefix is counted, as in the
\* run without onProgress, whether onProgress returns or fails
C16_ProgressAdvisory ==
    (main = "resolved" /\ \A s \in DOMAIN obs : ~obs[s].rejected) =>
        /\ \A s \in DOMAIN worker :
              /\ worker[s].pc = "done"
              /\ obs[s].delivered = shardListing(s)
              /\ opts.onShardComplete => obs[s].events[1].success
        /\ stats.totalObjects =
              Cardinality({k \in storage : underPrefix(k, opts.prefix)})
        /\ stats.completedShards = stats.totalShards

\* the onProgress invocations of the run: <<shard, i>> is the i-th by shard
progressCalls ==
    UNION {{<<s, i>> : i \in 1..Len(obs[s].progress)} : s \in DOMAIN obs}

\* Date.now() at the invocation c
calledAt(c) == obs[c[1]].progress[c[2]]

\* C17: any two onProgress invocations of a run are more than 10 seconds
\* apart, and every invocation, so the first, is more than 10 seconds after
\* the run started
C17_Throttled ==
    /\ \A c \in progressCalls :
          (calledAt(c) - stats.startTime) * TickMs > progressInterval
    /\ \A c, d \in progressCalls :
          c # d => \/ (calledAt(c) - calledAt(d)) * TickMs > progressInterval
                   \/ (calledAt(d) - calledAt(c)) * TickMs > progressInterval

C17_Witness ==
    /\ main = "resolved" /\ opts.onProgress = "returns"
    /\ \E s, t \in DOMAIN obs :
          /\ s # t
          /\ obs[s].progress = <<2>>
          /\ obs[t].progress = <<4>>
          /\ stats.lastUpdate = 4

\* C18 (step part): no step decreases totalObjects, processedObjects,
\* totalShards or completedShards
C18_NeverDecrease ==
    /\ stats'.totalObjects >= stats.totalObjects
    /\ stats'.processedObjects >= stats.processedObjects
    /\ stats'.totalShards >= stats.totalShards
    /\ stats'.completedShards >= stats.completedShards

\* C18 (state part): 0 <= activeShards <= totalShards and
\* completedShards + activeShards <= totalShards
C18_ActiveInRange ==
    /\ 0 <= stats.activeShards
    /\ stats.activeShards <= stats.totalShards
    /\ stats.completedShards + stats.activeShards <= stats.totalShards

C19_SingleShard ==
    (ret.planned /\ call.count = 1) =>
        /\ Len(ret.shards) = 1
        /\ ret.shards[1].type = "all"
        /\ ret.shards[1].prefix = call.basePrefix
        /\ (call.op = "belongs" /\ ret.answered
             /\ underPrefix(call.key, call.basePrefix)) => ret.owners = {1}
        /\ (call.op = "filter" /\ ret.answered /\ call.objects # <<>>) =>
              ret.filtered[1] = call.objects

C19_Witness ==
    /\ call.op = "filter" /\ ret.answered /\ call.count = 1
    /\ call.basePrefix = <<"d", "/">>
    /\ call.objects = <<<<"d", "/", "a">>, <<"d", "/", "@">>>>
    /\ ret.filtered[1] = call.objects

sameFirstChar(bp, c) == {bp \o <<c>> \o t : t \in Tails(MaxRest - 1)}

\* C21: for every generated shard, keyBelongsToShard gives a key under the
\* base prefix the answer it gives every other key with the same first
\* character after the base prefix, the one-character key included, so keys
\* that agree on that character map to the same shard whatever follows it
C21_DepthIndependence ==
    (/\ call.op = "belongs" /\ ret.answered
     /\ underPrefix(call.key, call.basePrefix)
     /\ Len(call.key) > Len(call.basePrefix)) =>
        \A k \in sameFirstChar(call.basePrefix, firstAfter(call.key, call.basePrefix)) :
            \A i \in 1..Len(ret.shards) :
                i \in ret.owners <=>
                    keyBelongsToShard(k, ret.shards[i], call.basePrefix)

C21_Witness ==
    /\ call.op = "belongs" /\ ret.answered /\ call.count = 32
    /\ call.basePrefix = <<"d", "/">>
    /\ call.key = <<"d", "/", "a", "/">>
    /\ Cardinality(ret.owners) = 1
    /\ \A i \in ret.owners :
          keyBelongsToShard(<<"d", "/", "a", "a">>, ret.shards[i], call.basePrefix)

RECURSIVE isSubsequence(_, _)
isSubsequence(a, b) ==
    IF a = <<>> THEN TRUE
    ELSE IF b = <<>> THEN FALSE
    ELSE IF a[1] = b[1] THEN isSubsequence(Tail(a), Tail(b))
    ELSE isSubsequence(a, Tail(b))

\* C22: for every generated shard (catch-all, explicit, all) and every
\* batch, filtering the filtered batch again changes nothing, and the
\* filtered batch is a subsequence of the batch, in the batch's order
C22_FilterIdempotent ==
    (call.op = "filter" /\ ret.answered) =>
        \A i \in 1..Len(ret.shards) :
            /\ filterObjectsByShard(ret.filtered[i], ret.shards[i], call.basePrefix)
                  = ret.filtered[i]
            /\ isSubsequence(ret.filtered[i], call.objects)

C22_Witness ==
    /\ call.op = "filter" /\ ret.answered /\ call.count = 63
    /\ call.basePrefix = <<"d", "/">>
    /\ call.objects = <<<<"d", "/", "@">>, <<"d", "/", "a">>>>
    /\ ret.filtered[1] = <<<<"d", "/", "@">>>>
    /\ ret.filtered[2] = call.objects

C26_RejectionContained ==
    \A s \in DOMAIN worker :
        (worker[s].pc = "processing" /\ worker'[s].pc = "failed") =>
            /\ obs'[s].requests = obs[s].requests
            /\ obs'[s].listInFlight = 0 /\ obs'[s].procInFlight = 0
            /\ stats'.activeShards = stats.activeShards - 1
            /\ opts.onShardComplete =>
                  obs'[s].events = <<[success |-> FALSE, objectCount |-> 0]>>
            /\ main' = "running"
            /\ \A t \in DOMAIN worker :
                  t # s => worker'[t] = worker[t] /\ obs'[t] = obs[t]

\* C26 (state part): when processShards has returned, a shard whose
\* processObject rejected is Failed with one success=false report, and every
\* shard that met no rejection is Completed with its whole listing delivered
C26_SiblingsComplete ==
    main = "resolved" =>
        \A s \in DOMAIN worker :
            /\ obs[s].rejected =>
                  /\ worker[s].pc = "failed"
                  /\ opts.onShardComplete =>
                        Len(obs[s].events) = 1 /\ ~obs[s].events[1].success
            /\ ~obs[s].rejected =>
                  /\ worker[s].pc = "done"
                  /\ obs[s].delivered = shardListing(s)

C27_TotalIsSumOfEvents ==
    (main = "resolved" /\ opts.onShardComplete) =>
        /\ stats.totalObjects =
              sumTo([s \in DOMAIN obs |-> obs[s].events[1].objectCount], Len(obs))
        /\ \A s \in reported(TRUE) :
              obs[s].events[1].objectCount = Len(obs[s].delivered)

\* C28 (state part): processedObjects never exceeds totalObjects, it is the
\* number of processObject calls that have resolved, and it equals
\* totalObjects when processShards has returned, processObject was supplied
\* and every shard succeeded
C28_ProcessedWithinTotal ==
    /\ stats.processedObjects <= stats.totalObjects
    /\ stats.processedObjects =
          sumTo([s \in DOMAIN obs |-> obs[s].resolved], Len(obs))
    /\ (allSucceeded /\ opts.processObject) =>
          stats.processedObjects = stats.totalObjects

C28_Witness ==
    /\ allSucceeded /\ opts.processObject
    /\ stats.processedObjects = 3 /\ stats.totalObjects = 3
    /\ \E s \in DOMAIN obs : obs[s].resolved = 2

\* C24: after a run of the sharded gzip finder in which every shard
\* succeeded, files checked plus errors is the number of objects under the
\* prefix whose key does not contain '/.da-versions/', and files.csv holds
\* one row per checked file
C24_EveryObjectChecked ==
    (main = "resolved" /\ out.ended /\ allSucceeded) =>
        /\ detailedStats.totalFiles + detailedStats.errors =
              Cardinality({k \in storage :
                              underPrefix(k, opts.prefix) /\ ~inDaVersions(k)})
        /\ Len(out.rows) = detailedStats.totalFiles

\* C25: with shard count 17 the hex plan is the catch-all and the 16 hex
\* characters, and every key under the prefix is written to the CSV by
\* exactly one shard, by the catch-all when its first character after the
\* prefix is not one of 0-9, a-f
C25_HexFullCoverage ==
    (call.op = "legacy" /\ call.count = 17 /\ ret.answered) =>
        /\ Len(ret.shards) = 17
        /\ underPrefix(call.key, call.basePrefix) =>
              /\ Cardinality(ret.owners) = 1
              /\ (/\ Len(call.key) > Len(call.basePrefix)
                   /\ firstAfter(call.key, call.basePrefix) \notin Range(hexChars))
                     => ret.owners = {1}

\* C29: when the recursive finder has finished, HeadObject was sent exactly
\* once for every object under the prefix whose key does not contain
\* '/.da-versions/', and for no other key, whatever the folder tree
C29_EveryObjectVisitedOnce ==
    main = "resolved" =>
        \A k \in Range(TreeOrder) :
            Cardinality({i \in 1..Len(obs) : obs[i] = k}) =
                IF k \in storage /\ underPrefix(k, opts.prefix) /\ ~inDaVersions(k)
                THEN 1 ELSE 0

\* how often key k occurs in the sequence rows
rowsOf(rows, k) == Cardinality({i \in 1..Len(rows) : rows[i] = k})

\* C30: in the CSV exporter the stream is ended only when every listShard
\* has finished (done or failed), no row is written after the end, rows are
\* written only to the opened stream after its header, every key that passed
\* a shard's filter is exactly one row, and the ended stream never changes
C30_StreamEndedLast ==
    /\ [](/\ out.late = 0
          /\ out.ended => \A s \in DOMAIN worker : worker[s].pc \in {"done", "failed"}
          /\ (worker # <<>> \/ out.rows # <<>>) => (out.open /\ out.header)
          /\ Len(out.rows) = stats.totalKeys
          /\ \A k \in Range(KeyOrder) :
                /\ rowsOf(out.rows, k) = occurrences(obs, k)
                /\ rowsOf(out.rows, k) <= 1
          /\ (main = "resolved" /\ \A s \in DOMAIN worker : worker[s].pc = "done") =>
                \A k \in storage :
                    underPrefix(k, opts.prefix) => rowsOf(out.rows, k) = 1)
    /\ [][out.ended => out' = out]_vars

\* the stream is ended after one shard failed and the others wrote two rows
C30_Witness ==
    /\ out.ended
    /\ Len(out.rows) >= 2
    /\ \E s \in DOMAIN worker : worker[s].pc = "failed"
    /\ \E s \in DOMAIN worker : worker[s].pc = "done" /\ obs[s] # <<>>

====
